---- MODULE Spec2Model ----
(***************************************************************************)
(* A model of the demonstration scripts of cs351-pa9-continuations.        *)
(*                                                                         *)
(* Each script is a straight-line program; one run of the repository runs  *)
(* one script from its first line to its last.  The variable `script`      *)
(* names the script that runs, `pc` is the position of its main thread.    *)
(*                                                                         *)
(*   script = "threads"  src/03-threads-vs-processes.py, PART 2 to PART 4  *)
(*   script = "gil"      src/04-python-gil-evolution.py, one call of       *)
(*                       parallel_computation(data, num_threads)           *)
(*   script = "refs"     src/01-pass-by-object-reference.py                *)
(*   script = "duck"     src/02-duck-typing.py                             *)
(*   script = "obj"      src/05-obj-to-python-comparison.py, the Counter   *)
(*                       class of PART 3 and PART 4                        *)
(*                                                                         *)
(* The literal worker counts and iteration counts of the scripts are       *)
(* generalised: where the script writes a pair of literals (5 threads and  *)
(* 1000 increments in PART 2, 3 processes and 100 increments in PART 3, 4  *)
(* workers and 1_000_000 rounds in PART 4) the model draws the pair from a *)
(* bounded set, once for the demonstrations that share the literals.  The  *)
(* arguments of parallel_computation and the literals of the parameter-    *)
(* passing demonstrations are drawn from bounded sets as well.             *)
(*                                                                         *)
(* counter["value"] += 1 is a read of the value followed by a store of the *)
(* value read plus one; another thread may run between the two.  A child   *)
(* process starts with a copy of its parent's memory (the fork start       *)
(* method).  Wall-clock times are not modelled.                            *)
(***************************************************************************)
EXTENDS Integers, Sequences, FiniteSets

\* Largest number of workers one demonstration starts (range(5), range(3), range(4)).
MaxWorkers == 2
\* Largest iteration count handed to a worker (1000, 100).
MaxIncr == 2
\* Longest list handed to a routine.
MaxLen == 3
\* Largest number stored in a list or a field, or used as a scalar.
MaxVal == 2
\* Largest number of Counter instances constructed (c1, c2, c3).
MaxInstances == 3

VARIABLES
  script,      \* the script that runs
  pc,          \* position of the main thread in the script
  k,           \* index of the main thread's current for-loop
  counter,     \* counter["value"] in the main process
  lock,        \* threading.Lock(): 0 when free, else the thread holding it
  threads,     \* the list `threads`: thread ids in the order they were appended
  thr,         \* every thread ever created: target, position, locals
  processes,   \* the list `processes`
  proc,        \* every child process ever created: target, position, its own memory
  nworkers,    \* the bound of the current range(...) loop that starts workers
  niter,       \* the n handed to the workers of the current demonstration
  transcript,  \* what the main process has printed, in order
  data,        \* parallel_computation: the argument `data`
  num_threads, \* parallel_computation: the argument `num_threads`
  chunk_size,  \* parallel_computation: the local `chunk_size`
  results,     \* parallel_computation: the list `results` the workers share
  ret,         \* parallel_computation: the value returned, <<>> before the return
  err,         \* the exception that has reached the top level, "none" when none has
  heap,        \* the objects of the script: the i-th object has identity i
  env,         \* the module-level names of the script: name -> identity, 0 when unbound
  lit_int,     \* the scalar literal of the script (5, 10, 30)
  lit_list,    \* the list literal of the script ([1, 2, 3])
  Counter_count \* the class variable Counter.count

\* parallel_computation's frame.
parVars == <<data, num_threads, chunk_size, results, ret>>
\* Objects and names of the parameter-passing demonstrations.
refVars == <<heap, env, lit_int, lit_list, Counter_count>>
\* What src/03-threads-vs-processes.py never touches.
notThreads == <<parVars, refVars, err>>

vars == <<script, pc, k, counter, lock, threads, thr, processes, proc,
          nworkers, niter, transcript, parVars, refVars, err>>

----------------------------------------------------------------------------
(* Threads and processes                                                   *)

\* Thread ids: the script runs three threaded demonstrations.
TIDs == 1 .. (3 * MaxWorkers)
\* Process ids: the script runs two process demonstrations.
PIDs == 1 .. (2 * MaxWorkers)

NoThread == [fn |-> "none", pc |-> "unstarted", n |-> 0, i |-> 0, tmp |-> 0]
NoProc == [fn |-> "none", pc |-> "unstarted", n |-> 0, i |-> 0, counter |-> 0,
           printed |-> -1]

\* A thread whose target has returned: its locals are gone.
Finished(fn) == [fn |-> fn, pc |-> "done", n |-> 0, i |-> 0, tmp |-> 0]

\* A child process that has exited.
FinishedProc(fn) == [fn |-> fn, pc |-> "done", n |-> 0, i |-> 0, counter |-> 0,
                     printed |-> -1]

\* The smallest unused thread id / process id (0 when none is left).
NewTid ==
  IF \E t \in TIDs : thr[t].pc = "unstarted"
    THEN CHOOSE t \in TIDs : thr[t].pc = "unstarted"
                              /\ \A u \in TIDs : thr[u].pc = "unstarted" => t <= u
    ELSE 0
NewPid ==
  IF \E p \in PIDs : proc[p].pc = "unstarted"
    THEN CHOOSE p \in PIDs : proc[p].pc = "unstarted"
                              /\ \A q \in PIDs : proc[q].pc = "unstarted" => p <= q
    ELSE 0

\* threads = [] / processes = [] drops the last references to the old list's
\* Thread / Process objects: the finished ones are collected, a running one lives on.
ReapThreads == [t \in TIDs |-> IF thr[t].pc = "done" THEN NoThread ELSE thr[t]]
ReapProcesses == [p \in PIDs |-> IF proc[p].pc = "done" THEN NoProc ELSE proc[p]]

\* t = threading.Thread(target=..., args=...); threads.append(t); t.start()
\* `frame` is the new thread's target and arguments.
Start(frame) ==
  /\ NewTid \in TIDs
  /\ thr' = [thr EXCEPT ![NewTid] = frame]
  /\ threads' = Append(threads, NewTid)

StartThread(fn, n) == Start([fn |-> fn, pc |-> "run", n |-> n, i |-> 0, tmp |-> 0])

\* Mutant of JoinThread: join returns at once.
JoinThread_nowait(j) == TRUE

\* t.join() for the k-th element of `threads`: blocks until that thread is done.
JoinThread(j) == thr[threads[j]].pc = "done"

\* p = multiprocessing.Process(target=fn, args=(n,)); processes.append(p); p.start()
\* The child starts with a copy of the parent's memory.
StartProcess(fn, n) ==
  /\ NewPid \in PIDs
  /\ proc' = [proc EXCEPT ![NewPid] = [fn |-> fn, pc |-> "run", n |-> n, i |-> 0,
                                       counter |-> counter, printed |-> -1]]
  /\ processes' = Append(processes, NewPid)

\* p.join() for the k-th element of `processes`.
JoinProcess(j) == proc[processes[j]].pc = "done"

\* print(...) in the main process.
Line(line, vals) == [line |-> line, vals |-> vals]
Say(line, vals) == transcript' = Append(transcript, Line(line, vals))

----------------------------------------------------------------------------
(* src/03-threads-vs-processes.py: the worker functions                    *)

\* increment_shared: counter["value"] += 1 reads the value ...
increment_shared_read(t) ==
  /\ thr[t].fn = "increment_shared" /\ thr[t].pc = "run" /\ thr[t].i < thr[t].n
  /\ thr' = [thr EXCEPT ![t].pc = "write", ![t].tmp = counter]
  /\ UNCHANGED <<script, pc, k, counter, lock, threads, processes, proc,
                 nworkers, niter, transcript, notThreads>>

\* ... and stores the value it read plus one.
increment_shared_write(t) ==
  /\ thr[t].fn = "increment_shared" /\ thr[t].pc = "write"
  /\ counter' = thr[t].tmp + 1
  /\ thr' = [thr EXCEPT ![t].pc = "run", ![t].tmp = 0, ![t].i = @ + 1]
  /\ UNCHANGED <<script, pc, k, lock, threads, processes, proc,
                 nworkers, niter, transcript, notThreads>>

\* Mutant of safe_acquire: the lock is taken without waiting for it to be free.
safe_acquire_unguarded(t) ==
  /\ thr[t].fn = "increment_shared_safe" /\ thr[t].pc = "run" /\ thr[t].i < thr[t].n
  /\ lock' = t
  /\ thr' = [thr EXCEPT ![t].pc = "read"]
  /\ UNCHANGED <<script, pc, k, counter, threads, processes, proc,
                 nworkers, niter, transcript, notThreads>>

\* with lock: __enter__ acquires the lock, blocking while another thread holds it.
safe_acquire(t) ==
  /\ thr[t].fn = "increment_shared_safe" /\ thr[t].pc = "run" /\ thr[t].i < thr[t].n
  /\ lock = 0
  /\ lock' = t
  /\ thr' = [thr EXCEPT ![t].pc = "read"]
  /\ UNCHANGED <<script, pc, k, counter, threads, processes, proc,
                 nworkers, niter, transcript, notThreads>>

\* Mutant of safe_read: the lock is given up as soon as the value is read.
safe_read_unlocks(t) ==
  /\ thr[t].fn = "increment_shared_safe" /\ thr[t].pc = "read"
  /\ thr' = [thr EXCEPT ![t].pc = "write", ![t].tmp = counter]
  /\ lock' = 0
  /\ UNCHANGED <<script, pc, k, counter, threads, processes, proc,
                 nworkers, niter, transcript, notThreads>>

safe_read(t) ==
  /\ thr[t].fn = "increment_shared_safe" /\ thr[t].pc = "read"
  /\ thr' = [thr EXCEPT ![t].pc = "write", ![t].tmp = counter]
  /\ UNCHANGED <<script, pc, k, counter, lock, threads, processes, proc,
                 nworkers, niter, transcript, notThreads>>

\* Mutant of safe_write: the value read is stored back as it is.
safe_write_stale(t) ==
  /\ thr[t].fn = "increment_shared_safe" /\ thr[t].pc = "write"
  /\ counter' = thr[t].tmp
  /\ thr' = [thr EXCEPT ![t].pc = "release", ![t].tmp = 0]
  /\ UNCHANGED <<script, pc, k, lock, threads, processes, proc,
                 nworkers, niter, transcript, notThreads>>

\* counter["value"] += 1 inside the with block: the store of the value read plus one.
safe_write(t) ==
  /\ thr[t].fn = "increment_shared_safe" /\ thr[t].pc = "write"
  /\ counter' = thr[t].tmp + 1
  /\ thr' = [thr EXCEPT ![t].pc = "release", ![t].tmp = 0]
  /\ UNCHANGED <<script, pc, k, lock, threads, processes, proc,
                 nworkers, niter, transcript, notThreads>>

\* Mutant of safe_release: the loop goes to its next round with the lock still held.
safe_release_keeps_lock(t) ==
  /\ thr[t].fn = "increment_shared_safe" /\ thr[t].pc = "release"
  /\ thr' = [thr EXCEPT ![t].pc = "run", ![t].i = @ + 1]
  /\ UNCHANGED <<script, pc, k, counter, lock, threads, processes, proc,
                 nworkers, niter, transcript, notThreads>>

\* with lock: __exit__ releases the lock; the loop goes to its next round.
safe_release(t) ==
  /\ thr[t].fn = "increment_shared_safe" /\ thr[t].pc = "release"
  /\ lock' = 0
  /\ thr' = [thr EXCEPT ![t].pc = "run", ![t].i = @ + 1]
  /\ UNCHANGED <<script, pc, k, counter, threads, processes, proc,
                 nworkers, niter, transcript, notThreads>>

\* for _ in range(n) is exhausted: the target returns and the thread ends.
increment_return(t) ==
  /\ thr[t].fn \in {"increment_shared", "increment_shared_safe"}
  /\ thr[t].pc = "run" /\ thr[t].i = thr[t].n
  /\ thr' = [thr EXCEPT ![t] = Finished(thr[t].fn)]
  /\ UNCHANGED <<script, pc, k, counter, lock, threads, processes, proc,
                 nworkers, niter, transcript, notThreads>>

\* cpu_bound_task(n): the sum of i*i for i in range(n).
RECURSIVE cpu_bound_task(_)
cpu_bound_task(n) == IF n <= 0 THEN 0 ELSE cpu_bound_task(n - 1) + (n - 1) * (n - 1)

\* A thread running cpu_bound_task touches only its locals; the count it computes
\* is dropped when the target returns.
cpu_thread(t) ==
  /\ thr[t].fn = "cpu_bound_task" /\ thr[t].pc = "run"
  /\ cpu_bound_task(thr[t].n) >= 0
  /\ thr' = [thr EXCEPT ![t] = Finished("cpu_bound_task")]
  /\ UNCHANGED <<script, pc, k, counter, lock, threads, processes, proc,
                 nworkers, niter, transcript, notThreads>>

\* Mutant of process_rebind: the child keeps the counter it inherited.
process_rebind_missing(p) ==
  /\ proc[p].fn = "increment_process" /\ proc[p].pc = "run"
  /\ proc' = [proc EXCEPT ![p].pc = "loop"]
  /\ UNCHANGED <<script, pc, k, counter, lock, threads, thr, processes,
                 nworkers, niter, transcript, notThreads>>

\* increment_process in a child: global counter; counter = {"value": 0}
process_rebind(p) ==
  /\ proc[p].fn = "increment_process" /\ proc[p].pc = "run"
  /\ proc' = [proc EXCEPT ![p].counter = 0, ![p].pc = "loop"]
  /\ UNCHANGED <<script, pc, k, counter, lock, threads, thr, processes,
                 nworkers, niter, transcript, notThreads>>

\* Mutant of process_increment: the child writes the parent's counter, as a thread would.
process_increment_shared(p) ==
  /\ proc[p].fn = "increment_process" /\ proc[p].pc = "loop" /\ proc[p].i < proc[p].n
  /\ counter' = counter + 1
  /\ proc' = [proc EXCEPT ![p].counter = @ + 1, ![p].i = @ + 1]
  /\ UNCHANGED <<script, pc, k, lock, threads, thr, processes,
                 nworkers, niter, transcript, notThreads>>

\* for _ in range(n): counter["value"] += 1, on the child's own counter.
process_increment(p) ==
  /\ proc[p].fn = "increment_process" /\ proc[p].pc = "loop" /\ proc[p].i < proc[p].n
  /\ proc' = [proc EXCEPT ![p].counter = @ + 1, ![p].i = @ + 1]
  /\ UNCHANGED <<script, pc, k, counter, lock, threads, thr, processes,
                 nworkers, niter, transcript, notThreads>>

\* print(f"Process {os.getpid()}: counter = {counter['value']}")
process_print(p) ==
  /\ proc[p].fn = "increment_process" /\ proc[p].pc = "loop" /\ proc[p].i = proc[p].n
  /\ proc' = [proc EXCEPT ![p].printed = proc[p].counter, ![p].pc = "return"]
  /\ UNCHANGED <<script, pc, k, counter, lock, threads, thr, processes,
                 nworkers, niter, transcript, notThreads>>

\* The target returns and the child exits: its memory is gone.
process_exit(p) ==
  /\ proc[p].pc = "return"
  /\ proc' = [proc EXCEPT ![p] = FinishedProc(proc[p].fn)]
  /\ UNCHANGED <<script, pc, k, counter, lock, threads, thr, processes,
                 nworkers, niter, transcript, notThreads>>

\* A child running cpu_bound_task.
cpu_process(p) ==
  /\ proc[p].fn = "cpu_bound_task" /\ proc[p].pc = "run"
  /\ cpu_bound_task(proc[p].n) >= 0
  /\ proc' = [proc EXCEPT ![p].pc = "return"]
  /\ UNCHANGED <<script, pc, k, counter, lock, threads, thr, processes,
                 nworkers, niter, transcript, notThreads>>

----------------------------------------------------------------------------
(* src/03-threads-vs-processes.py: the main thread, PART 2                 *)

\* The threads one demonstration has started so far have all ended.
AllJoined == \A j \in 1 .. Len(threads) : thr[threads[j]].pc = "done"
AllProcessesJoined == \A j \in 1 .. Len(processes) : proc[processes[j]].pc = "done"

\* print("WITHOUT lock:"); counter["value"] = 0; threads = []
unsync_init ==
  /\ script = "threads" /\ pc = "unsync_init"
  /\ \E w \in 1 .. MaxWorkers, n \in 0 .. MaxIncr : nworkers' = w /\ niter' = n
  /\ counter' = 0
  /\ threads' = <<>>
  /\ k' = 0
  /\ pc' = "unsync_start"
  /\ UNCHANGED <<script, lock, thr, processes, proc, transcript, notThreads>>

\* Mutant of unsync_start: the loop starts one thread too many.
unsync_start_extra ==
  /\ script = "threads" /\ pc = "unsync_start" /\ k <= nworkers
  /\ StartThread("increment_shared", niter)
  /\ k' = k + 1
  /\ UNCHANGED <<script, pc, counter, lock, processes, proc, nworkers, niter, transcript, notThreads>>

\* for _ in range(5): t = threading.Thread(target=increment_shared, args=(1000,)); ...
unsync_start ==
  /\ script = "threads" /\ pc = "unsync_start" /\ k < nworkers
  /\ StartThread("increment_shared", niter)
  /\ k' = k + 1
  /\ UNCHANGED <<script, pc, counter, lock, processes, proc, nworkers, niter, transcript, notThreads>>

unsync_started ==
  /\ script = "threads" /\ pc = "unsync_start" /\ k >= nworkers
  /\ pc' = "unsync_join" /\ k' = 0
  /\ UNCHANGED <<script, counter, lock, threads, thr, processes, proc,
                 nworkers, niter, transcript, notThreads>>

\* for t in threads: t.join()
unsync_join ==
  /\ script = "threads" /\ pc = "unsync_join" /\ k < Len(threads)
  /\ JoinThread(k + 1)
  /\ k' = k + 1
  /\ UNCHANGED <<script, pc, counter, lock, threads, thr, processes, proc,
                 nworkers, niter, transcript, notThreads>>

\* Mutant of unsync_joined: the main thread leaves the join loop at any round.
unsync_joined_early ==
  /\ script = "threads" /\ pc = "unsync_join"
  /\ pc' = "unsync_report" /\ k' = 0
  /\ UNCHANGED <<script, counter, lock, threads, thr, processes, proc,
                 nworkers, niter, transcript, notThreads>>

unsync_joined ==
  /\ script = "threads" /\ pc = "unsync_join" /\ k >= Len(threads)
  /\ pc' = "unsync_report" /\ k' = 0
  /\ UNCHANGED <<script, counter, lock, threads, thr, processes, proc,
                 nworkers, niter, transcript, notThreads>>

\* Mutant of unsync_report: a counter other than W*N is treated as a failure.
unsync_report_strict ==
  /\ script = "threads" /\ pc = "unsync_report"
  /\ IF counter # nworkers * niter
       THEN err' = "AssertionError" /\ pc' = "raised" /\ UNCHANGED transcript
       ELSE Say(65, <<counter>>) /\ pc' = "sync_init" /\ UNCHANGED err
  /\ UNCHANGED <<script, k, counter, lock, threads, thr, processes, proc,
                 nworkers, niter, parVars, refVars>>

\* print(f"Expected: 5000, Got: {counter['value']}")
\* if counter["value"] != 5000: print("Race condition! ...")
unsync_report ==
  /\ script = "threads" /\ pc = "unsync_report"
  /\ transcript' = transcript
                     \o <<[line |-> 65, vals |-> <<counter>>]>>
                     \o (IF counter # nworkers * niter
                           THEN <<[line |-> 67, vals |-> <<>>]>> ELSE <<>>)
  /\ pc' = "sync_init"
  /\ UNCHANGED <<script, k, counter, lock, threads, thr, processes, proc,
                 nworkers, niter, notThreads>>

\* print("\nWITH lock:"); counter["value"] = 0; lock = threading.Lock(); threads = []
sync_init ==
  /\ script = "threads" /\ pc = "sync_init"
  /\ counter' = 0
  /\ lock' = 0
  /\ threads' = <<>>
  /\ k' = 0
  /\ pc' = "sync_start"
  /\ thr' = ReapThreads
  /\ UNCHANGED <<script, nworkers, niter, processes, proc, transcript, notThreads>>

\* for _ in range(5): t = threading.Thread(target=increment_shared_safe, args=(1000, lock)); ...
sync_start ==
  /\ script = "threads" /\ pc = "sync_start" /\ k < nworkers
  /\ StartThread("increment_shared_safe", niter)
  /\ k' = k + 1
  /\ UNCHANGED <<script, pc, counter, lock, processes, proc, nworkers, niter, transcript, notThreads>>

sync_started ==
  /\ script = "threads" /\ pc = "sync_start" /\ k >= nworkers
  /\ pc' = "sync_join" /\ k' = 0
  /\ UNCHANGED <<script, counter, lock, threads, thr, processes, proc,
                 nworkers, niter, transcript, notThreads>>

\* for t in threads: t.join()
sync_join ==
  /\ script = "threads" /\ pc = "sync_join" /\ k < Len(threads)
  /\ JoinThread(k + 1)
  /\ k' = k + 1
  /\ UNCHANGED <<script, pc, counter, lock, threads, thr, processes, proc,
                 nworkers, niter, transcript, notThreads>>

sync_joined ==
  /\ script = "threads" /\ pc = "sync_join" /\ k >= Len(threads)
  /\ pc' = "sync_report" /\ k' = 0
  /\ UNCHANGED <<script, counter, lock, threads, thr, processes, proc,
                 nworkers, niter, transcript, notThreads>>

\* print(f"Expected: 5000, Got: {counter['value']}"); print("Lock prevents race conditions")
sync_report ==
  /\ script = "threads" /\ pc = "sync_report"
  /\ Say(82, <<counter>>)
  /\ pc' = "proc_init"
  /\ UNCHANGED <<script, k, counter, lock, threads, thr, processes, proc,
                 nworkers, niter, notThreads>>

----------------------------------------------------------------------------
(* src/03-threads-vs-processes.py: the main thread, PART 3                 *)

\* print("Starting processes (each has isolated memory):"); processes = []
proc_init ==
  /\ script = "threads" /\ pc = "proc_init"
  /\ \E w \in 1 .. MaxWorkers, n \in 0 .. MaxIncr : nworkers' = w /\ niter' = n
  /\ processes' = <<>>
  /\ k' = 0
  /\ pc' = "proc_start"
  /\ UNCHANGED <<script, counter, lock, threads, thr, proc, transcript, notThreads>>

\* for _ in range(3): p = multiprocessing.Process(target=increment_process, args=(100,)); ...
proc_start ==
  /\ script = "threads" /\ pc = "proc_start" /\ k < nworkers
  /\ StartProcess("increment_process", niter)
  /\ k' = k + 1
  /\ UNCHANGED <<script, pc, counter, lock, threads, thr, nworkers, niter, transcript, notThreads>>

proc_started ==
  /\ script = "threads" /\ pc = "proc_start" /\ k >= nworkers
  /\ pc' = "proc_join" /\ k' = 0
  /\ UNCHANGED <<script, counter, lock, threads, thr, processes, proc,
                 nworkers, niter, transcript, notThreads>>

\* for p in processes: p.join()
proc_join ==
  /\ script = "threads" /\ pc = "proc_join" /\ k < Len(processes)
  /\ JoinProcess(k + 1)
  /\ k' = k + 1
  /\ UNCHANGED <<script, pc, counter, lock, threads, thr, processes, proc,
                 nworkers, niter, transcript, notThreads>>

proc_joined ==
  /\ script = "threads" /\ pc = "proc_join" /\ k >= Len(processes)
  /\ pc' = "proc_report" /\ k' = 0
  /\ UNCHANGED <<script, counter, lock, threads, thr, processes, proc,
                 nworkers, niter, transcript, notThreads>>

\* print(f"Main process counter: {counter['value']}")
proc_report ==
  /\ script = "threads" /\ pc = "proc_report"
  /\ Say(109, <<counter>>)
  /\ pc' = "cput_init"
  /\ UNCHANGED <<script, k, counter, lock, threads, thr, processes, proc,
                 nworkers, niter, notThreads>>

----------------------------------------------------------------------------
(* src/03-threads-vs-processes.py: the main thread, PART 4                 *)

\* print("CPU-bound task with THREADS:"); start = time.time(); threads = []
cput_init ==
  /\ script = "threads" /\ pc = "cput_init"
  /\ \E w \in 1 .. MaxWorkers, n \in 0 .. MaxIncr : nworkers' = w /\ niter' = n
  /\ threads' = <<>>
  /\ k' = 0
  /\ pc' = "cput_start"
  /\ thr' = ReapThreads
  /\ UNCHANGED <<script, counter, lock, processes, proc, transcript, notThreads>>

\* for _ in range(4): t = threading.Thread(target=cpu_bound_task, args=(1_000_000,)); ...
cput_start ==
  /\ script = "threads" /\ pc = "cput_start" /\ k < nworkers
  /\ StartThread("cpu_bound_task", niter)
  /\ k' = k + 1
  /\ UNCHANGED <<script, pc, counter, lock, processes, proc, nworkers, niter, transcript, notThreads>>

cput_started ==
  /\ script = "threads" /\ pc = "cput_start" /\ k >= nworkers
  /\ pc' = "cput_join" /\ k' = 0
  /\ UNCHANGED <<script, counter, lock, threads, thr, processes, proc,
                 nworkers, niter, transcript, notThreads>>

\* for t in threads: t.join()
cput_join ==
  /\ script = "threads" /\ pc = "cput_join" /\ k < Len(threads)
  /\ JoinThread(k + 1)
  /\ k' = k + 1
  /\ UNCHANGED <<script, pc, counter, lock, threads, thr, processes, proc,
                 nworkers, niter, transcript, notThreads>>

cput_joined ==
  /\ script = "threads" /\ pc = "cput_join" /\ k >= Len(threads)
  /\ pc' = "cput_report" /\ k' = 0
  /\ UNCHANGED <<script, counter, lock, threads, thr, processes, proc,
                 nworkers, niter, transcript, notThreads>>

\* thread_time = time.time() - start; print(f"Time with threads: {thread_time:.2f}s")
cput_report ==
  /\ script = "threads" /\ pc = "cput_report"
  /\ Say(143, <<>>)
  /\ pc' = "cpup_init"
  /\ UNCHANGED <<script, k, counter, lock, threads, thr, processes, proc,
                 nworkers, niter, notThreads>>

\* print("\nCPU-bound task with PROCESSES:"); start = time.time(); processes = []
cpup_init ==
  /\ script = "threads" /\ pc = "cpup_init"
  /\ processes' = <<>>
  /\ k' = 0
  /\ pc' = "cpup_start"
  /\ proc' = ReapProcesses
  /\ UNCHANGED <<script, nworkers, niter, counter, lock, threads, thr, transcript, notThreads>>

\* for _ in range(4): p = multiprocessing.Process(target=cpu_bound_task, args=(1_000_000,)); ...
cpup_start ==
  /\ script = "threads" /\ pc = "cpup_start" /\ k < nworkers
  /\ StartProcess("cpu_bound_task", niter)
  /\ k' = k + 1
  /\ UNCHANGED <<script, pc, counter, lock, threads, thr, nworkers, niter, transcript, notThreads>>

cpup_started ==
  /\ script = "threads" /\ pc = "cpup_start" /\ k >= nworkers
  /\ pc' = "cpup_join" /\ k' = 0
  /\ UNCHANGED <<script, counter, lock, threads, thr, processes, proc,
                 nworkers, niter, transcript, notThreads>>

\* for p in processes: p.join()
cpup_join ==
  /\ script = "threads" /\ pc = "cpup_join" /\ k < Len(processes)
  /\ JoinProcess(k + 1)
  /\ k' = k + 1
  /\ UNCHANGED <<script, pc, counter, lock, threads, thr, processes, proc,
                 nworkers, niter, transcript, notThreads>>

cpup_joined ==
  /\ script = "threads" /\ pc = "cpup_join" /\ k >= Len(processes)
  /\ pc' = "cpup_report" /\ k' = 0
  /\ UNCHANGED <<script, counter, lock, threads, thr, processes, proc,
                 nworkers, niter, transcript, notThreads>>

\* process_time = time.time() - start; print(f"Time with processes: {process_time:.2f}s")
cpup_report ==
  /\ script = "threads" /\ pc = "cpup_report"
  /\ Say(157, <<>>)
  /\ pc' = "done"
  /\ UNCHANGED <<script, k, counter, lock, threads, thr, processes, proc,
                 nworkers, niter, notThreads>>

----------------------------------------------------------------------------
(* src/04-python-gil-evolution.py: parallel_computation                    *)

\* Lists of at most MaxLen numbers of 0 .. MaxVal.
Lists == UNION {[1 .. n -> 0 .. MaxVal] : n \in 0 .. MaxLen}

\* a // b as Python computes it for b # 0: the floor of the quotient.
FloorDiv(a, b) == IF b > 0 THEN a \div b ELSE (0 - a) \div (0 - b)

\* [0] * n: n zeros, the empty list when n <= 0.
Zeros(n) == IF n <= 0 THEN <<>> ELSE [j \in 1 .. n |-> 0]

\* A slice bound as Python clamps it: a negative bound counts from the end.
Clamp(b, len) == IF b < 0 THEN (IF b + len < 0 THEN 0 ELSE b + len)
                 ELSE (IF b > len THEN len ELSE b)

\* s[a:b], with 0-based bounds.
Slice(s, a, b) ==
  LET lo == Clamp(a, Len(s))
      hi == Clamp(b, Len(s))
  IN IF hi <= lo THEN <<>> ELSE [j \in 1 .. (hi - lo) |-> s[lo + j]]

\* sum(x * x for x in chunk)
RECURSIVE SumSquares(_)
SumSquares(chunk) ==
  IF chunk = <<>> THEN 0
  ELSE Head(chunk) * Head(chunk) + SumSquares(Tail(chunk))

\* sum(results)
RECURSIVE Sum(_)
Sum(s) == IF s = <<>> THEN 0 ELSE Head(s) + Sum(Tail(s))

\* Mutant of ChunkBounds: the last round ends like the others, the rest is left out.
ChunkBounds_even(i) ==
  [start_idx |-> i * chunk_size, end_idx |-> (i * chunk_size) + chunk_size]

\* start_idx and end_idx of round i of the loop (i counts from 0).
ChunkBounds(i) ==
  LET start_idx == i * chunk_size
      end_idx == IF i < num_threads - 1 THEN start_idx + chunk_size ELSE Len(data)
  IN [start_idx |-> start_idx, end_idx |-> end_idx]

\* The chunk of round i: data[start_idx:end_idx].
ChunkOf(i) == Slice(data, ChunkBounds(i).start_idx, ChunkBounds(i).end_idx)

\* The call: chunk_size = len(data) // num_threads; threads = []; results = [0] * num_threads
\* len(data) // 0 raises ZeroDivisionError, which nothing catches.
par_call ==
  /\ script = "gil" /\ pc = "par_call"
  /\ \E d \in Lists, nt \in (0 - MaxWorkers) .. (MaxWorkers + 1) :
       /\ data' = d
       /\ num_threads' = nt
       /\ IF nt = 0
            THEN /\ err' = "ZeroDivisionError"
                 /\ pc' = "par_raised"
                 /\ UNCHANGED <<chunk_size, results, threads>>
            ELSE /\ chunk_size' = FloorDiv(Len(d), nt)
                 /\ threads' = <<>>
                 /\ results' = Zeros(nt)
                 /\ pc' = "par_start"
                 /\ UNCHANGED err
  /\ k' = 0
  /\ UNCHANGED <<script, counter, lock, thr, processes, proc, nworkers, niter,
                 transcript, ret, refVars>>

\* for i in range(num_threads): ...; t = threading.Thread(target=worker,
\*     args=(chunk, results, i)); threads.append(t); t.start()
par_start ==
  /\ script = "gil" /\ pc = "par_start" /\ k < num_threads
  /\ Start([fn |-> "worker", pc |-> "run", n |-> 0, i |-> 0, tmp |-> 0,
            chunk |-> ChunkOf(k), index |-> k])
  /\ k' = k + 1
  /\ UNCHANGED <<script, pc, counter, lock, processes, proc, nworkers, niter,
                 transcript, parVars, refVars, err>>

par_started ==
  /\ script = "gil" /\ pc = "par_start" /\ k >= num_threads
  /\ pc' = "par_join" /\ k' = 0
  /\ UNCHANGED <<script, counter, lock, threads, thr, processes, proc, nworkers, niter,
                 transcript, parVars, refVars, err>>

\* worker(chunk, results, index): result = sum(x * x for x in chunk); results[index] = result
worker(t) ==
  /\ thr[t].fn = "worker" /\ thr[t].pc = "run"
  /\ results' = [results EXCEPT ![thr[t].index + 1] = SumSquares(thr[t].chunk)]
  /\ thr' = [thr EXCEPT ![t] = Finished("worker")]
  /\ UNCHANGED <<script, pc, k, counter, lock, threads, processes, proc, nworkers, niter,
                 transcript, data, num_threads, chunk_size, ret, refVars, err>>

\* for t in threads: t.join()
par_join ==
  /\ script = "gil" /\ pc = "par_join" /\ k < Len(threads)
  /\ JoinThread(k + 1)
  /\ k' = k + 1
  /\ UNCHANGED <<script, pc, counter, lock, threads, thr, processes, proc, nworkers, niter,
                 transcript, parVars, refVars, err>>

par_joined ==
  /\ script = "gil" /\ pc = "par_join" /\ k >= Len(threads)
  /\ pc' = "par_return" /\ k' = 0
  /\ UNCHANGED <<script, counter, lock, threads, thr, processes, proc, nworkers, niter,
                 transcript, parVars, refVars, err>>

\* elapsed = time.time() - start; return sum(results), elapsed
par_return ==
  /\ script = "gil" /\ pc = "par_return"
  /\ ret' = <<Sum(results)>>
  /\ pc' = "par_done"
  /\ UNCHANGED <<script, k, counter, lock, threads, thr, processes, proc, nworkers, niter,
                 transcript, data, num_threads, chunk_size, results, refVars, err>>

----------------------------------------------------------------------------
(* Objects, names and calls                                                *)
(*                                                                         *)
(* Every value is an object on the heap; a name holds the identity of an   *)
(* object, and a call hands the callee the identities its arguments hold.  *)
(* The callee's parameters are its own names: rebinding one allocates or   *)
(* picks another object and leaves the caller's names alone.               *)

IntObj(v) == [kind |-> "int", val |-> v]
ListObj(items) == [kind |-> "list", val |-> items]
\* class Point: __init__ sets self.x and self.y
PointObj(x, y) == [kind |-> "Point", val |-> [x |-> x, y |-> y]]
\* class MutableBox: __init__ sets self.value
BoxObj(v) == [kind |-> "MutableBox", val |-> [value |-> v]]

\* A new object: its identity is one no object had before.
Alloc(h, obj) == Append(h, obj)
NewId(h) == Len(h) + 1

\* What print(f"... {name}, id = {id(name)}") shows of the object `ref`.
Show(line, h, ref) == [line |-> line, vals |-> <<h[ref].val, ref>>]
\* What print(f"... {box.value}") shows.
ShowValue(line, h, ref) == [line |-> line, vals |-> <<h[ref].val.value>>]

\* Mutant of try_modify_int: the integer object itself is changed, as if x were a box.
try_modify_int_in_place(h, x) ==
  LET h1 == [h EXCEPT ![x].val = @ + 10]
  IN [heap |-> h1, ret |-> x, out |-> <<Show(15, h, x), Show(17, h1, x)>>]

\* def try_modify_int(x): x = x + 10; return x
try_modify_int(h, x) ==
  LET x1 == NewId(h)
      h1 == Alloc(h, IntObj(h[x].val + 10))
  IN [heap |-> h1, ret |-> x1, out |-> <<Show(15, h, x), Show(17, h1, x1)>>]

\* Mutant of try_modify_list: the parameter is rebound to a new list, lst = lst + [4].
try_modify_list_rebinds(h, lst) ==
  LET lst1 == NewId(h)
      h1 == Alloc(h, ListObj(Append(h[lst].val, 4)))
  IN [heap |-> h1, ret |-> 0, out |-> <<Show(35, h, lst), Show(37, h1, lst1)>>]

\* def try_modify_list(lst): lst.append(4)
try_modify_list(h, lst) ==
  LET h1 == [h EXCEPT ![lst].val = Append(@, 4)]
  IN [heap |-> h1, ret |-> 0, out |-> <<Show(35, h, lst), Show(37, h1, lst)>>]

\* Mutant of reassign_list: the list is overwritten in place, lst[:] = [99, 98, 97].
reassign_list_in_place(h, lst) ==
  LET h1 == [h EXCEPT ![lst].val = <<99, 98, 97>>]
  IN [heap |-> h1, ret |-> 0, out |-> <<Show(53, h, lst), Show(55, h1, lst)>>]

\* def reassign_list(lst): lst = [99, 98, 97]
reassign_list(h, lst) ==
  LET lst1 == NewId(h)
      h1 == Alloc(h, ListObj(<<99, 98, 97>>))
  IN [heap |-> h1, ret |-> 0, out |-> <<Show(53, h, lst), Show(55, h1, lst1)>>]

\* def mutate_list(lst): lst[:] = [99, 98, 97]
mutate_list(h, lst) ==
  LET h1 == [h EXCEPT ![lst].val = <<99, 98, 97>>]
  IN [heap |-> h1, ret |-> 0, out |-> <<Show(60, h, lst), Show(62, h1, lst)>>]

\* def move_point(p): p.x += 10; p.y += 10
move_point(h, p) ==
  LET h1 == [h EXCEPT ![p].val.x = @ + 10]
      h2 == [h1 EXCEPT ![p].val.y = @ + 10]
  IN [heap |-> h2, ret |-> 0, out |-> <<>>]

\* def replace_point(p): p = Point(99, 99); return p
replace_point(h, p) ==
  LET p1 == NewId(h)
      h1 == Alloc(h, PointObj(99, 99))
  IN [heap |-> h1, ret |-> p1, out |-> <<>>]

\* def modify_box(box, new_value): box.value = new_value
modify_box(h, box, new_value) ==
  [heap |-> [h EXCEPT ![box].val.value = new_value], ret |-> 0, out |-> <<>>]

\* def replace_box(box, new_value): box = MutableBox(new_value)
replace_box(h, box, new_value) ==
  [heap |-> Alloc(h, BoxObj(new_value)), ret |-> 0, out |-> <<>>]

\* The steps below touch the objects, the names, the position and the transcript.
notObjects == <<k, counter, lock, threads, thr, processes, proc, nworkers, niter,
                parVars, err, lit_int, lit_list, Counter_count>>

\* name = <a new object>
Bind(name, obj) ==
  /\ heap' = Alloc(heap, obj)
  /\ env' = [env EXCEPT ![name] = NewId(heap)]

\* A call whose result `r` is dropped (target = "") or bound to the name `target`.
Call(r, target) ==
  /\ heap' = r.heap
  /\ env' = IF target = "" THEN env ELSE [env EXCEPT ![target] = r.ret]
  /\ transcript' = transcript \o r.out

----------------------------------------------------------------------------
(* src/01-pass-by-object-reference.py                                      *)

\* num = 5; print(f"Before call: num = {num}, id = {id(num)}")
refs_l21 ==
  /\ script = "refs" /\ pc = "l21"
  /\ Bind("num", IntObj(lit_int))
  /\ transcript' = Append(transcript, Show(22, heap', env'.num))
  /\ pc' = "l23"
  /\ UNCHANGED <<script, notObjects>>

\* result = try_modify_int(num)
refs_l23 ==
  /\ script = "refs" /\ pc = "l23"
  /\ Call(try_modify_int(heap, env.num), "result")
  /\ pc' = "l24"
  /\ UNCHANGED <<script, notObjects>>

\* print(f"After call:  num = ..."); print(f"Result:      result = ...")
refs_l24 ==
  /\ script = "refs" /\ pc = "l24"
  /\ transcript' = transcript \o <<Show(24, heap, env.num), Show(25, heap, env.result)>>
  /\ pc' = "l40"
  /\ UNCHANGED <<script, heap, env, notObjects>>

\* my_list = [1, 2, 3]; print(f"Before call: my_list = ...")
refs_l40 ==
  /\ script = "refs" /\ pc = "l40"
  /\ Bind("my_list", ListObj(lit_list))
  /\ transcript' = Append(transcript, Show(41, heap', env'.my_list))
  /\ pc' = "l42"
  /\ UNCHANGED <<script, notObjects>>

\* try_modify_list(my_list)
refs_l42 ==
  /\ script = "refs" /\ pc = "l42"
  /\ Call(try_modify_list(heap, env.my_list), "")
  /\ pc' = "l43"
  /\ UNCHANGED <<script, notObjects>>

\* print(f"After call:  my_list = ...")
refs_l43 ==
  /\ script = "refs" /\ pc = "l43"
  /\ transcript' = Append(transcript, Show(43, heap, env.my_list))
  /\ pc' = "l65"
  /\ UNCHANGED <<script, heap, env, notObjects>>

\* list1 = [1, 2, 3]; list2 = [1, 2, 3]; print(f"Before: list1 = ...")
refs_l65 ==
  /\ script = "refs" /\ pc = "l65"
  /\ heap' = Alloc(Alloc(heap, ListObj(lit_list)), ListObj(lit_list))
  /\ env' = [env EXCEPT !.list1 = NewId(heap), !.list2 = NewId(heap) + 1]
  /\ transcript' = Append(transcript, Show(69, heap', env'.list1))
  /\ pc' = "l70"
  /\ UNCHANGED <<script, notObjects>>

\* reassign_list(list1)
refs_l70 ==
  /\ script = "refs" /\ pc = "l70"
  /\ Call(reassign_list(heap, env.list1), "")
  /\ pc' = "l71"
  /\ UNCHANGED <<script, notObjects>>

\* print(f"After:  list1 = ..."); print(f"Before: list2 = ...")
refs_l71 ==
  /\ script = "refs" /\ pc = "l71"
  /\ transcript' = transcript \o <<Show(71, heap, env.list1), Show(75, heap, env.list2)>>
  /\ pc' = "l76"
  /\ UNCHANGED <<script, heap, env, notObjects>>

\* mutate_list(list2)
refs_l76 ==
  /\ script = "refs" /\ pc = "l76"
  /\ Call(mutate_list(heap, env.list2), "")
  /\ pc' = "l77"
  /\ UNCHANGED <<script, notObjects>>

\* print(f"After:  list2 = ...")
refs_l77 ==
  /\ script = "refs" /\ pc = "l77"
  /\ transcript' = Append(transcript, Show(77, heap, env.list2))
  /\ pc' = "l106"
  /\ UNCHANGED <<script, heap, env, notObjects>>

\* pt = Point(1, 2); print(f"Original point: {pt}, id = {id(pt)}")
refs_l106 ==
  /\ script = "refs" /\ pc = "l106"
  /\ Bind("pt", PointObj(lit_int, lit_int + 1))
  /\ transcript' = Append(transcript, Show(107, heap', env'.pt))
  /\ pc' = "l109"
  /\ UNCHANGED <<script, notObjects>>

\* move_point(pt)
refs_l109 ==
  /\ script = "refs" /\ pc = "l109"
  /\ Call(move_point(heap, env.pt), "")
  /\ pc' = "l110"
  /\ UNCHANGED <<script, notObjects>>

\* print(f"After move_point: {pt}, id = {id(pt)}")
refs_l110 ==
  /\ script = "refs" /\ pc = "l110"
  /\ transcript' = Append(transcript, Show(110, heap, env.pt))
  /\ pc' = "l113"
  /\ UNCHANGED <<script, heap, env, notObjects>>

\* new_pt = replace_point(pt)
refs_l113 ==
  /\ script = "refs" /\ pc = "l113"
  /\ Call(replace_point(heap, env.pt), "new_pt")
  /\ pc' = "l114"
  /\ UNCHANGED <<script, notObjects>>

\* print(f"After replace_point: ..."); print(f"Returned new point: ...")
refs_l114 ==
  /\ script = "refs" /\ pc = "l114"
  /\ transcript' = transcript \o <<Show(114, heap, env.pt), Show(115, heap, env.new_pt)>>
  /\ pc' = "done"
  /\ UNCHANGED <<script, heap, env, notObjects>>

----------------------------------------------------------------------------
(* src/02-duck-typing.py                                                   *)
(*                                                                         *)
(* The classes of the script have no base class in common: what an object  *)
(* can do is looked up by name, in its class, when the call is made.  A    *)
(* call yields a record: `raised` is "none" and `value` the result, or     *)
(* `raised` names the exception and `obj`, `name` are what its message     *)
(* names ("'Dog' object has no attribute 'quack'").                        *)

\* The methods each class defines.
MethodsOf(kind) ==
  CASE kind = "Duck" -> {"quack", "walk"}
    [] kind = "Person" -> {"quack", "walk"}
    [] kind = "Dog" -> {"bark", "walk"}
    [] kind = "FileWriter" -> {"write", "save"}
    [] kind = "ConsoleWriter" -> {"write"}
    [] kind = "ListWriter" -> {"write"}
    [] OTHER -> {}

\* What quack() returns in the classes that define it.
quack(kind) ==
  CASE kind = "Duck" -> "Quack!"
    [] kind = "Person" -> "I'm imitating a duck: Quack!"

DuckObj == [kind |-> "Duck", val |-> <<>>]
PersonObj == [kind |-> "Person", val |-> <<>>]
DogObj == [kind |-> "Dog", val |-> <<>>]
ConsoleWriterObj == [kind |-> "ConsoleWriter", val |-> <<>>]
\* class ListWriter: __init__ sets self.items = []
ListWriterObj == [kind |-> "ListWriter", val |-> [items |-> <<>>]]

Returned(v) == [raised |-> "none", value |-> v, obj |-> "", name |-> ""]
AttributeError(kind, name) ==
  [raised |-> "AttributeError", value |-> "", obj |-> kind, name |-> name]

\* Mutant of make_it_quack: the argument is checked against the class Duck.
make_it_quack_nominal(h, thing) ==
  IF h[thing].kind = "Duck"
    THEN Returned(quack(h[thing].kind))
    ELSE AttributeError(h[thing].kind, "quack")

\* def make_it_quack(thing): return thing.quack()
make_it_quack(h, thing) ==
  IF "quack" \in MethodsOf(h[thing].kind)
    THEN Returned(quack(h[thing].kind))
    ELSE AttributeError(h[thing].kind, "quack")

\* def make_it_quack_typed(thing: Quackable) -> str: return thing.quack()
\* The annotation is not enforced when the script runs.
make_it_quack_typed(h, thing) ==
  IF "quack" \in MethodsOf(h[thing].kind)
    THEN Returned(quack(h[thing].kind))
    ELSE AttributeError(h[thing].kind, "quack")

\* The texts write_report hands to writer.write, one after the other.
ReportLines(items) ==
  <<"=== REPORT ===">> \o items \o <<"=== END ===">>

\* def write_report(writer, data): writer.write(...) for the header, each item, the
\* footer.  ConsoleWriter.write prints (line 82), ListWriter.write appends to items.
write_report(h, writer, items) ==
  LET texts == ReportLines(items)
  IN IF "write" \notin MethodsOf(h[writer].kind)
       THEN [heap |-> h, out |-> <<>>, raised |-> "AttributeError"]
     ELSE IF h[writer].kind = "ConsoleWriter"
       THEN [heap |-> h,
             out |-> [j \in 1 .. Len(texts) |-> [line |-> 82, vals |-> <<texts[j]>>]],
             raised |-> "none"]
       ELSE [heap |-> [h EXCEPT ![writer].val.items = @ \o texts],
             out |-> <<>>, raised |-> "none"]

\* The numbers and the string the script squares: re/scale + (im/scale)j, or s.
IntVal(n) == [type |-> "int", re |-> n, im |-> 0, scale |-> 1, s |-> ""]
FloatVal(n, scale) == [type |-> "float", re |-> n, im |-> 0, scale |-> scale, s |-> ""]
ComplexVal(re, im) == [type |-> "complex", re |-> re, im |-> im, scale |-> 1, s |-> ""]
StrVal(s) == [type |-> "str", re |-> 0, im |-> 0, scale |-> 1, s |-> s]

\* def square(x): return x * x
\* str * str is not defined: "can't multiply sequence by non-int of type 'str'".
square(x) ==
  IF x.type = "str"
    THEN [raised |-> "TypeError", value |-> x]
    ELSE [raised |-> "none",
          value |-> [type |-> x.type,
                     re |-> (x.re * x.re) - (x.im * x.im),
                     im |-> 2 * x.re * x.im,
                     scale |-> x.scale * x.scale,
                     s |-> ""]]

\* The steps of this script touch the objects, the names, the position, the
\* transcript and the exception that reaches the top level.
notDuck == <<k, counter, lock, threads, thr, processes, proc, nworkers, niter,
             parVars, lit_int, lit_list, Counter_count>>

\* An exception nothing catches ends the script with a traceback.
Uncaught(exc) ==
  /\ err' = exc
  /\ pc' = "raised"

\* print("PART 1: ..."); duck = Duck(); person = Person()
duck_l47 ==
  /\ script = "duck" /\ pc = "l47"
  /\ heap' = Alloc(Alloc(heap, DuckObj), PersonObj)
  /\ env' = [env EXCEPT !.duck = NewId(heap), !.person = NewId(heap) + 1]
  /\ transcript' = Append(transcript, Line(9, <<>>))
  /\ pc' = "l50"
  /\ UNCHANGED <<script, err, notDuck>>

\* print(f"Duck quacks: {make_it_quack(duck)}")
duck_l50 ==
  /\ script = "duck" /\ pc = "l50"
  /\ LET r == make_it_quack(heap, env.duck)
     IN IF r.raised = "none"
          THEN /\ transcript' = Append(transcript, Line(50, <<r.value>>))
               /\ pc' = "l51"
               /\ err' = err
          ELSE /\ Uncaught(r.raised)
               /\ transcript' = transcript
  /\ UNCHANGED <<script, heap, env, notDuck>>

\* print(f"Person quacks: {make_it_quack(person)}")
duck_l51 ==
  /\ script = "duck" /\ pc = "l51"
  /\ LET r == make_it_quack(heap, env.person)
     IN IF r.raised = "none"
          THEN /\ transcript' = Append(transcript, Line(51, <<r.value>>))
               /\ pc' = "l55"
               /\ err' = err
          ELSE /\ Uncaught(r.raised)
               /\ transcript' = transcript
  /\ UNCHANGED <<script, heap, env, notDuck>>

\* print("\nWhat about Dog?"); dog = Dog()
duck_l55 ==
  /\ script = "duck" /\ pc = "l55"
  /\ Bind("dog", DogObj)
  /\ transcript' = Append(transcript, Line(54, <<>>))
  /\ pc' = "l56"
  /\ UNCHANGED <<script, err, notDuck>>

\* try: print(f"Dog quacks: {make_it_quack(dog)}")
\* except AttributeError as e: print(f"Error: {e}"); print("Dog doesn't have ...")
duck_l56 ==
  /\ script = "duck" /\ pc = "l56"
  /\ LET r == make_it_quack(heap, env.dog)
     IN IF r.raised = "none"
          THEN /\ transcript' = Append(transcript, Line(57, <<r.value>>))
               /\ pc' = "l107"
               /\ err' = err
        ELSE IF r.raised = "AttributeError"
          THEN /\ transcript' = transcript \o <<Line(59, <<r.obj, r.name>>), Line(60, <<>>)>>
               /\ pc' = "l107"
               /\ err' = err
          ELSE /\ Uncaught(r.raised)
               /\ transcript' = transcript
  /\ UNCHANGED <<script, heap, env, notDuck>>

\* The list `data` of line 107.
Items == <<"Item 1", "Item 2", "Item 3">>

\* print("PART 2: ..."); data = [...]; console = ConsoleWriter(); write_report(console, data)
duck_l107 ==
  /\ script = "duck" /\ pc = "l107"
  /\ LET h1 == Alloc(heap, ConsoleWriterObj)
         r == write_report(h1, NewId(heap), Items)
     IN /\ env' = [env EXCEPT !.console = NewId(heap)]
        /\ heap' = r.heap
        /\ IF r.raised = "none"
             THEN /\ transcript' = (transcript \o <<Line(63, <<>>), Line(109, <<>>)>>) \o r.out
                  /\ pc' = "l114"
                  /\ err' = err
             ELSE /\ Uncaught(r.raised)
                  /\ transcript' = transcript \o <<Line(63, <<>>), Line(109, <<>>)>>
  /\ UNCHANGED <<script, notDuck>>

\* list_writer = ListWriter(); write_report(list_writer, data); print(f"List contents: ...")
duck_l114 ==
  /\ script = "duck" /\ pc = "l114"
  /\ LET h1 == Alloc(heap, ListWriterObj)
         r == write_report(h1, NewId(heap), Items)
     IN /\ env' = [env EXCEPT !.list_writer = NewId(heap)]
        /\ heap' = r.heap
        /\ IF r.raised = "none"
             THEN /\ transcript' = transcript \o
                       <<Line(113, <<>>), Line(116, r.heap[NewId(heap)].val.items)>>
                  /\ pc' = "l153"
                  /\ err' = err
             ELSE /\ Uncaught(r.raised)
                  /\ transcript' = Append(transcript, Line(113, <<>>))
  /\ UNCHANGED <<script, notDuck>>

\* print(f"... {square(x)}") at `line`; the script goes on at `next`.
PrintSquare(line, x, next) ==
  LET r == square(x)
  IN IF r.raised = "none"
       THEN /\ transcript' = Append(transcript, Line(line, <<r.value>>))
            /\ pc' = next
            /\ err' = err
       ELSE /\ Uncaught(r.raised)
            /\ transcript' = transcript

\* print("PART 3: ..."); print(f"square(5) = {square(5)}")
duck_l153 ==
  /\ script = "duck" /\ pc = "l153"
  /\ LET r == square(IntVal(5))
     IN IF r.raised = "none"
          THEN /\ transcript' = transcript \o <<Line(119, <<>>), Line(153, <<r.value>>)>>
               /\ pc' = "l154"
               /\ err' = err
          ELSE /\ Uncaught(r.raised)
               /\ transcript' = Append(transcript, Line(119, <<>>))
  /\ UNCHANGED <<script, heap, env, notDuck>>

\* print(f"square(3.14) = {square(3.14)}")
duck_l154 ==
  /\ script = "duck" /\ pc = "l154"
  /\ PrintSquare(154, FloatVal(314, 100), "l155")
  /\ UNCHANGED <<script, heap, env, notDuck>>

\* print(f"square(2+3j) = {square(2+3j)}")
duck_l155 ==
  /\ script = "duck" /\ pc = "l155"
  /\ PrintSquare(155, ComplexVal(2, 3), "l156")
  /\ UNCHANGED <<script, heap, env, notDuck>>

\* print(f"square('ab') = {square('ab')}") and, when it returns, the rest of the
\* script: PART 4 with the two calls of make_it_quack_typed, PART 5, KEY INSIGHTS.
duck_l156 ==
  /\ script = "duck" /\ pc = "l156"
  /\ LET r == square(StrVal("ab"))
         d == make_it_quack_typed(heap, env.duck)
         p == make_it_quack_typed(heap, env.person)
     IN IF r.raised # "none"
          THEN /\ Uncaught(r.raised)
               /\ transcript' = transcript
        ELSE IF d.raised # "none"
          THEN /\ Uncaught(d.raised)
               /\ transcript' = transcript \o <<Line(156, <<r.value>>), Line(159, <<>>)>>
        ELSE IF p.raised # "none"
          THEN /\ Uncaught(p.raised)
               /\ transcript' = transcript \o
                    <<Line(156, <<r.value>>), Line(159, <<>>), Line(183, <<d.value>>)>>
          ELSE /\ transcript' = transcript \o
                    <<Line(156, <<r.value>>), Line(159, <<>>), Line(183, <<d.value>>),
                      Line(184, <<p.value>>), Line(190, <<>>), Line(256, <<>>)>>
               /\ pc' = "done"
               /\ err' = err
  /\ UNCHANGED <<script, heap, env, notDuck>>

----------------------------------------------------------------------------
(* src/05-obj-to-python-comparison.py, PART 3: class Counter               *)
(*                                                                         *)
(* The script constructs three instances, c1, c2 and c3; the model         *)
(* constructs any number of them up to MaxInstances.  The instances are    *)
(* the first objects of the script: the i-th constructed is heap[i].       *)

CounterObj(id) == [kind |-> "Counter", val |-> [id |-> id]]

\* Mutant of Counter__init__: self.id is taken before the class variable is raised.
Counter__init__stale(h, count) ==
  [heap |-> Alloc(h, CounterObj(count)), count |-> count + 1]

\* def __init__(self): Counter.count += 1; self.id = Counter.count
\* `count` is Counter.count before the call.
Counter__init__(h, count) ==
  LET count1 == count + 1
  IN [heap |-> Alloc(h, CounterObj(count1)), count |-> count1]

\* The instances constructed so far, in the order of their construction.
Instances == SelectSeq(heap, LAMBDA o : o.kind = "Counter")

\* c = Counter()
obj_l210 ==
  /\ script = "obj" /\ pc = "l210"
  /\ Len(Instances) < MaxInstances
  /\ LET r == Counter__init__(heap, Counter_count)
     IN /\ heap' = r.heap
        /\ Counter_count' = r.count
  /\ UNCHANGED <<script, pc, k, counter, lock, threads, thr, processes, proc, nworkers,
                 niter, transcript, parVars, err, env, lit_int, lit_list>>

\* print(f"c1.id = {c1.id}, c2.id = {c2.id}, c3.id = {c3.id}")
\* print(f"Counter.count = {Counter.count}")
obj_l214 ==
  /\ script = "obj" /\ pc = "l210"
  /\ transcript' = transcript \o
       <<Line(214, [j \in 1 .. Len(Instances) |-> Instances[j].val.id]),
         Line(215, <<Counter_count>>)>>
  /\ pc' = "l256"
  /\ UNCHANGED <<script, heap, env, notObjects>>

----------------------------------------------------------------------------
(* src/05-obj-to-python-comparison.py, PART 4                              *)

\* box1 = MutableBox(10); print(f"Before modify: box1.value = {box1.value}")
obj_l256 ==
  /\ script = "obj" /\ pc = "l256"
  /\ Bind("box1", BoxObj(lit_int))
  /\ transcript' = Append(transcript, ShowValue(257, heap', env'.box1))
  /\ pc' = "l258"
  /\ UNCHANGED <<script, notObjects>>

\* modify_box(box1, 20)
obj_l258 ==
  /\ script = "obj" /\ pc = "l258"
  /\ Call(modify_box(heap, env.box1, lit_int + 10), "")
  /\ pc' = "l259"
  /\ UNCHANGED <<script, notObjects>>

\* print(f"After modify:  ..."); box2 = MutableBox(30); print(f"\nBefore replace: ...")
obj_l259 ==
  /\ script = "obj" /\ pc = "l259"
  /\ Bind("box2", BoxObj(lit_int + 20))
  /\ transcript' = transcript \o <<ShowValue(259, heap, env.box1),
                                   ShowValue(262, heap', env'.box2)>>
  /\ pc' = "l263"
  /\ UNCHANGED <<script, notObjects>>

\* replace_box(box2, 40)
obj_l263 ==
  /\ script = "obj" /\ pc = "l263"
  /\ Call(replace_box(heap, env.box2, lit_int + 30), "")
  /\ pc' = "l264"
  /\ UNCHANGED <<script, notObjects>>

\* print(f"After replace:  box2.value = {box2.value}")
obj_l264 ==
  /\ script = "obj" /\ pc = "l264"
  /\ transcript' = Append(transcript, ShowValue(264, heap, env.box2))
  /\ pc' = "done"
  /\ UNCHANGED <<script, heap, env, notObjects>>

----------------------------------------------------------------------------
(* The scripts                                                             *)

\* A script that never calls parallel_computation / that has no objects of interest.
NoParallel ==
  /\ data = <<>> /\ num_threads = 0 /\ chunk_size = 0 /\ results = <<>> /\ ret = <<>>
NoObjects ==
  /\ heap = <<>> /\ env = [n \in {} |-> 0] /\ lit_int = 0 /\ lit_list = <<>>
  /\ Counter_count = 0

\* counter = {"value": 0} (line 37); no thread, no process, nothing printed.
InitThreads ==
  /\ script = "threads"
  /\ pc = "unsync_init"
  /\ k = 0
  /\ counter = 0
  /\ lock = 0
  /\ threads = <<>>
  /\ thr = [t \in TIDs |-> NoThread]
  /\ processes = <<>>
  /\ proc = [p \in PIDs |-> NoProc]
  /\ nworkers = 0
  /\ niter = 0
  /\ transcript = <<>>
  /\ NoParallel /\ NoObjects
  /\ err = "none"

\* src/04-python-gil-evolution.py, about to call parallel_computation.
InitGil ==
  /\ script = "gil"
  /\ pc = "par_call"
  /\ k = 0
  /\ counter = 0
  /\ lock = 0
  /\ threads = <<>>
  /\ thr = [t \in TIDs |-> NoThread]
  /\ processes = <<>>
  /\ proc = [p \in PIDs |-> NoProc]
  /\ nworkers = 0
  /\ niter = 0
  /\ transcript = <<>>
  /\ NoParallel /\ NoObjects
  /\ err = "none"

\* No thread, no process, no call of parallel_computation.
NoWorkers ==
  /\ k = 0
  /\ counter = 0
  /\ lock = 0
  /\ threads = <<>>
  /\ thr = [t \in TIDs |-> NoThread]
  /\ processes = <<>>
  /\ proc = [p \in PIDs |-> NoProc]
  /\ nworkers = 0
  /\ niter = 0
  /\ NoParallel
  /\ err = "none"

\* src/01-pass-by-object-reference.py at its first statement: no name is bound yet.
\* The literals 5, [1, 2, 3] and Point(1, 2) are drawn from bounded sets.
InitRefs ==
  /\ script = "refs"
  /\ pc = "l21"
  /\ NoWorkers
  /\ transcript = <<>>
  /\ heap = <<>>
  /\ env = [num |-> 0, result |-> 0, my_list |-> 0, list1 |-> 0, list2 |-> 0,
            pt |-> 0, new_pt |-> 0]
  /\ lit_int \in 0 .. MaxVal
  /\ lit_list \in Lists
  /\ Counter_count = 0

\* src/02-duck-typing.py at its first statement: no name is bound yet.
InitDuck ==
  /\ script = "duck"
  /\ pc = "l47"
  /\ NoWorkers
  /\ transcript = <<>>
  /\ heap = <<>>
  /\ env = [duck |-> 0, person |-> 0, dog |-> 0, console |-> 0, list_writer |-> 0]
  /\ lit_int = 0
  /\ lit_list = <<>>
  /\ Counter_count = 0

\* src/05-obj-to-python-comparison.py at the first Counter() of PART 3, with
\* Counter.count = 0 (line 201).  The literals 10, 20, 30, 40 of PART 4 are
\* lit_int, lit_int + 10, lit_int + 20, lit_int + 30.
InitObj ==
  /\ script = "obj"
  /\ pc = "l210"
  /\ NoWorkers
  /\ transcript = <<>>
  /\ heap = <<>>
  /\ env = [box1 |-> 0, box2 |-> 0]
  /\ lit_int \in 0 .. MaxVal
  /\ lit_list = <<>>
  /\ Counter_count = 0

Init == InitThreads \/ InitGil \/ InitRefs \/ InitDuck \/ InitObj

\* One step of thread t, whatever its target.
RunThread(t) ==
  \/ increment_shared_read(t)
  \/ increment_shared_write(t)
  \/ safe_acquire(t)
  \/ safe_read(t)
  \/ safe_write(t)
  \/ safe_release(t)
  \/ increment_return(t)
  \/ cpu_thread(t)
  \/ worker(t)

\* One step of child process p.
RunProcess(p) ==
  \/ process_rebind(p)
  \/ process_increment(p)
  \/ process_print(p)
  \/ process_exit(p)
  \/ cpu_process(p)

ThreadStep == \E t \in TIDs : RunThread(t)

ProcessStep == \E p \in PIDs : RunProcess(p)

MainThreads ==
  \/ unsync_init \/ unsync_start \/ unsync_started \/ unsync_join \/ unsync_joined
  \/ unsync_report
  \/ sync_init \/ sync_start \/ sync_started \/ sync_join \/ sync_joined
  \/ sync_report
  \/ proc_init \/ proc_start \/ proc_started \/ proc_join \/ proc_joined
  \/ proc_report
  \/ cput_init \/ cput_start \/ cput_started \/ cput_join \/ cput_joined
  \/ cput_report
  \/ cpup_init \/ cpup_start \/ cpup_started \/ cpup_join \/ cpup_joined
  \/ cpup_report

MainGil ==
  \/ par_call \/ par_start \/ par_started \/ par_join \/ par_joined \/ par_return

MainRefs ==
  \/ refs_l21 \/ refs_l23 \/ refs_l24
  \/ refs_l40 \/ refs_l42 \/ refs_l43
  \/ refs_l65 \/ refs_l70 \/ refs_l71 \/ refs_l76 \/ refs_l77
  \/ refs_l106 \/ refs_l109 \/ refs_l110 \/ refs_l113 \/ refs_l114

MainDuck ==
  \/ duck_l47 \/ duck_l50 \/ duck_l51 \/ duck_l55 \/ duck_l56
  \/ duck_l107 \/ duck_l114
  \/ duck_l153 \/ duck_l154 \/ duck_l155 \/ duck_l156

MainObj ==
  \/ obj_l210 \/ obj_l214
  \/ obj_l256 \/ obj_l258 \/ obj_l259 \/ obj_l263 \/ obj_l264

\* One step of the main thread of the script that runs.
Main == MainThreads \/ MainGil \/ MainRefs \/ MainDuck \/ MainObj

Next ==
  \/ MainThreads \/ MainGil \/ MainRefs \/ MainDuck \/ MainObj
  \/ ThreadStep \/ ProcessStep

Spec == Init /\ [][Next]_vars

\* The operating system schedules fairly: a thread or a process that can take a step,
\* and can go on taking it, eventually takes one.  A thread waiting for the lock is
\* not owed the lock while others keep taking it.
FairSpec ==
  /\ Spec
  /\ WF_vars(Main)
  /\ \A t \in TIDs : WF_vars(RunThread(t))
  /\ \A p \in PIDs : WF_vars(RunProcess(p))

----------------------------------------------------------------------------
(* Properties of src/03-threads-vs-processes.py                            *)

\* What the main process printed at `line`, <<>> when it has not.
Printed(line) ==
  IF \E j \in 1 .. Len(transcript) : transcript[j].line = line
    THEN transcript[CHOOSE j \in 1 .. Len(transcript) : transcript[j].line = line].vals
    ELSE <<>>

\* Thread t is inside the with-lock block of increment_shared_safe.
InGuarded(t) ==
  thr[t].fn = "increment_shared_safe" /\ thr[t].pc \in {"read", "write", "release"}

\* No thread and no child process is running.
NoThreadRunning == \A t \in TIDs : thr[t].pc \in {"unstarted", "done"}
NoProcessRunning == \A p \in PIDs : proc[p].pc \in {"unstarted", "done"}

\* C1: the synchronized counter. Once the W workers of increment_shared_safe(N, lock)
\* have all been started and have all finished, the counter, reset to 0 before them,
\* is exactly W*N.
C1_SyncFinalExact ==
  (script = "threads" /\ pc \in {"sync_join", "sync_report"} /\ AllJoined)
    => counter = nworkers * niter

\* The synchronized run has ended with two workers or more, each with two
\* increments or more.
C1_Witness ==
  /\ script = "threads" /\ pc = "sync_report"
  /\ nworkers >= 2 /\ niter >= 2 /\ Len(threads) = nworkers
  /\ counter = nworkers * niter

\* C2: mutual exclusion. At most one worker is inside the with-lock block, and a
\* worker inside it (about to read, about to write, or about to leave after the
\* write) holds the lock.
C2_MutualExclusion ==
  /\ \A t, u \in TIDs : (InGuarded(t) /\ InGuarded(u)) => t = u
  /\ \A t \in TIDs : InGuarded(t) => lock = t

\* One worker has written and still holds the lock while another one waits for it.
C2_Witness ==
  \E t, u \in TIDs :
    /\ t # u
    /\ thr[t].fn = "increment_shared_safe" /\ thr[t].pc = "release" /\ lock = t
    /\ thr[u].fn = "increment_shared_safe" /\ thr[u].pc = "run" /\ thr[u].i < thr[u].n

\* C3: the unsynchronized counter never exceeds W*N, from its reset to 0 until the
\* next demonstration resets it again.
C3_UnsyncUpperBound ==
  (script = "threads"
     /\ pc \in {"unsync_start", "unsync_join", "unsync_report", "sync_init"})
    => counter <= nworkers * niter

\* The unsynchronized run has ended and the bound is met: no update was lost.
C3_Witness ==
  /\ script = "threads" /\ pc = "unsync_report"
  /\ nworkers >= 2 /\ niter >= 1
  /\ counter = nworkers * niter

\* C4: a lost update is tolerated. Whatever the unsynchronized workers left in the
\* counter, the script prints it (line 65), prints the race warning (line 67) exactly
\* when it differs from W*N, raises nothing and goes on to the next demonstration.
C4_LostUpdateTolerated ==
  /\ script = "threads" => err = "none"
  /\ (script = "threads" /\ pc = "sync_init") =>
       /\ Printed(65) = <<counter>>
       /\ (counter # nworkers * niter) <=> (\E j \in 1 .. Len(transcript) :
                                               transcript[j].line = 67)

\* An interleaving of two workers or more in which an update is lost: all of them
\* have finished, the value printed is below W*N and the script goes on.
C4_Witness ==
  /\ script = "threads" /\ pc = "sync_init"
  /\ nworkers >= 2 /\ niter >= 1 /\ Len(threads) = nworkers /\ AllJoined
  /\ Printed(65) # <<>> /\ Printed(65)[1] < nworkers * niter

\* C5: the child processes leave the parent's counter alone. From the print of line
\* 82 on, the parent's counter is the value printed there, and line 109, after the
\* children were joined, prints that same value.
C5_ParentUntouched ==
  (script = "threads" /\ Printed(82) # <<>>) =>
    /\ counter = Printed(82)[1]
    /\ Printed(109) # <<>> => Printed(109) = Printed(82)

\* Two children or more, each with an increment or more, have run and were joined,
\* and the parent's counter is not 0.
C5_Witness ==
  /\ script = "threads" /\ pc = "cput_init"
  /\ nworkers >= 2 /\ niter >= 1 /\ Len(processes) = nworkers /\ AllProcessesJoined
  /\ Printed(109) # <<>> /\ Printed(109)[1] >= 2

\* C6: a child of increment_process(n) ends with its own counter at exactly n, and
\* prints n.
C6_ChildCountsOwn ==
  \A p \in PIDs :
    (proc[p].fn = "increment_process" /\ proc[p].pc = "return")
      => (proc[p].counter = proc[p].n /\ proc[p].printed = proc[p].n)

\* A child has printed n >= 1 while a sibling is still counting and the parent's
\* counter is not 0.
C6_Witness ==
  \E p, q \in PIDs :
    /\ p # q
    /\ proc[p].fn = "increment_process" /\ proc[p].pc = "return" /\ proc[p].n >= 1
    /\ proc[q].fn = "increment_process" /\ proc[q].pc = "loop" /\ proc[q].i >= 1
    /\ counter >= 1

\* C7: the main thread is at a report (the prints of lines 65, 82, 109, the elapsed
\* times of lines 142 and 156, the return of parallel_computation) only when every
\* worker of the demonstration has been started and has ended.
C7_ReportAfterJoin ==
  /\ (script = "threads" /\ pc \in {"unsync_report", "sync_report", "cput_report"})
       => (Len(threads) = nworkers /\ NoThreadRunning)
  /\ (script = "threads" /\ pc \in {"proc_report", "cpup_report"})
       => (Len(processes) = nworkers /\ NoProcessRunning)
  /\ (script = "gil" /\ pc = "par_return")
       => (NoThreadRunning /\ (num_threads >= 1 => Len(threads) = num_threads))

\* The last report of the script is reached with two workers or more.
C7_Witness ==
  /\ script = "threads" /\ pc = "cpup_report"
  /\ Len(processes) >= 2 /\ Len(processes) = nworkers /\ AllProcessesJoined

----------------------------------------------------------------------------
(* Properties of src/04-python-gil-evolution.py                            *)

\* C8: a call of parallel_computation with num_threads <= 0 starts no worker, returns
\* nothing and ends with an exception at the caller.
C8_NonPositiveRejected ==
  (script = "gil" /\ pc # "par_call" /\ num_threads <= 0) =>
    /\ threads = <<>>
    /\ ret = <<>>
    /\ pc # "par_done"
    /\ pc = "par_raised" => err # "none"

----------------------------------------------------------------------------
(* Properties of src/01-pass-by-object-reference.py and of PART 4 of       *)
(* src/05-obj-to-python-comparison.py                                      *)

\* The main thread takes the step from position `from` to position `to`.
Step(s, from, to) == script = s /\ pc = from /\ pc' = to

\* C9: in-place mutation is visible to the caller. Across each call of a routine
\* that mutates its argument in place (try_modify_list, mutate_list, move_point,
\* modify_box) every name of the caller holds the identity it held before, and the
\* object the caller's name refers to has the mutated contents after the call.
C9_MutationVisible ==
  [][
    /\ Step("refs", "l42", "l43") =>
         /\ env' = env
         /\ heap'[env'.my_list].val = Append(heap[env.my_list].val, 4)
    /\ Step("refs", "l76", "l77") =>
         /\ env' = env
         /\ heap'[env'.list2].val = <<99, 98, 97>>
    /\ Step("refs", "l109", "l110") =>
         /\ env' = env
         /\ heap'[env'.pt].val = [x |-> heap[env.pt].val.x + 10,
                                  y |-> heap[env.pt].val.y + 10]
    /\ Step("obj", "l258", "l259") =>
         /\ env' = env
         /\ heap'[env'.box1].val.value = lit_int + 10
  ]_vars

\* try_modify_list has returned and the caller's non-empty list is one longer.
C9_Witness ==
  /\ script = "refs" /\ pc = "l43"
  /\ Len(lit_list) >= 1
  /\ heap[env.my_list].val = Append(lit_list, 4)

\* C10: rebinding is local. Across each call of a routine that only rebinds its
\* parameter (try_modify_int, reassign_list, replace_point, replace_box) the
\* caller's name for the argument holds the identity it held before, and no object
\* that existed before the call has changed: the same value, the same contents.
C10_RebindingLocal ==
  [][
    /\ Step("refs", "l23", "l24") =>
         /\ env'.num = env.num
         /\ \A id \in 1 .. Len(heap) : heap'[id] = heap[id]
    /\ Step("refs", "l70", "l71") =>
         /\ env' = env
         /\ \A id \in 1 .. Len(heap) : heap'[id] = heap[id]
    /\ Step("refs", "l113", "l114") =>
         /\ env'.pt = env.pt
         /\ \A id \in 1 .. Len(heap) : heap'[id] = heap[id]
    /\ Step("obj", "l263", "l264") =>
         /\ env' = env
         /\ \A id \in 1 .. Len(heap) : heap'[id] = heap[id]
  ]_vars

\* reassign_list has returned: its new list [99, 98, 97] exists, and the caller's
\* list1 is another object, with the contents it had.
C10_Witness ==
  /\ script = "refs" /\ pc = "l71"
  /\ Len(lit_list) >= 1
  /\ heap[Len(heap)].val = <<99, 98, 97>>
  /\ env.list1 # Len(heap)
  /\ heap[env.list1].val = lit_list

----------------------------------------------------------------------------
(* Properties of src/02-duck-typing.py                                     *)

\* The positions of the script up to the try statement of line 56.
BeforeDogCall == {"l47", "l50", "l51", "l55", "l56"}

\* C11: capability dispatch is decided at the call. make_it_quack returns the quack
\* result of the Duck ("Quack!") and of the Person, which share no ancestor; the Dog
\* is constructed without failure, and only the call make_it_quack(dog) fails, with
\* an AttributeError that names the object kind "Dog" and the operation "quack".
C11_DispatchAtCall ==
  script = "duck" =>
    /\ pc \notin {"l47", "l50"} => Printed(50) = <<"Quack!">>
    /\ pc \notin {"l47", "l50", "l51"} => Printed(51) = <<quack("Person")>>
    /\ pc = "l56" =>
         /\ heap[env.dog].kind = "Dog"
         /\ err = "none"
         /\ \A j \in 1 .. Len(transcript) : transcript[j].line \notin {57, 59}
    /\ pc \notin BeforeDogCall =>
         /\ Printed(59) = <<"Dog", "quack">>
         /\ \A j \in 1 .. Len(transcript) : transcript[j].line # 57

\* C11 happens: both quacking objects have answered and the call on the Dog has failed.
C11_Witness ==
  /\ script = "duck"
  /\ Printed(50) = <<"Quack!">>
  /\ Printed(51) = <<"I'm imitating a duck: Quack!">>
  /\ Printed(59) = <<"Dog", "quack">>

\* C12: an expected failure does not stop the run. Once the dispatch to the Dog has
\* failed, the failure line is in the transcript, no exception reaches the top level,
\* and the script goes on, section after section, until it ends normally.
C12_FailureDoesNotStopRun ==
  (script = "duck" /\ pc \notin BeforeDogCall) =>
    /\ Printed(59) = <<"Dog", "quack">>
    /\ err = "none"
    /\ pc = "done" \/ ENABLED MainDuck

----------------------------------------------------------------------------
(* Properties of src/05-obj-to-python-comparison.py, class Counter         *)

\* C13: after k constructions of Counter, starting from Counter.count = 0,
\* Counter.count is k and the i-th constructed instance has id i; since this holds in
\* every state, no later construction changes the id of an instance.
C13_CounterIds ==
  script = "obj" =>
    /\ Counter_count = Len(Instances)
    /\ \A i \in 1 .. Len(Instances) : Instances[i].val.id = i
    /\ \A i \in 1 .. Len(heap) : heap[i].kind = "Counter" <=> i <= Len(Instances)

\* C13 happens: the script has constructed as many instances as it may and printed
\* their ids.
C13_Witness ==
  /\ script = "obj"
  /\ Counter_count = MaxInstances
  /\ Printed(214) = [i \in 1 .. MaxInstances |-> i]
  /\ Printed(215) = <<MaxInstances>>

----------------------------------------------------------------------------
(* Properties of src/01-pass-by-object-reference.py, PART 1                *)

----------------------------------------------------------------------------
(* Properties of src/04-python-gil-evolution.py, parallel_computation      *)

\* The positions of `data` (1 .. len(data)) that the slice of round i picks.
ChunkPositions(i) ==
  LET positions == [p \in 1 .. Len(data) |-> p]
      chunk == Slice(positions, ChunkBounds(i).start_idx, ChunkBounds(i).end_idx)
  IN {chunk[j] : j \in 1 .. Len(chunk)}

\* The worker of round i (i counts from 0) has stored its result.
WorkerDone(i) ==
  /\ i + 1 <= Len(threads)
  /\ thr[threads[i + 1]].pc = "done"

\* C15: parallel_computation splits the data exactly once. For num_threads >= 1 the
\* chunks of the rounds are disjoint and cover every position of data; a worker holds
\* the chunk of its round; slot results[i] is 0 until the worker of round i has stored
\* the sum of squares of its chunk there, and is that sum afterwards; and the value
\* returned is the sum of x*x over data, whatever num_threads and the order in which
\* the workers ran.
C15_SplitOnce ==
  (script = "gil" /\ num_threads >= 1 /\ pc # "par_call") =>
    /\ \A i, j \in 0 .. num_threads - 1 :
         i # j => ChunkPositions(i) \cap ChunkPositions(j) = {}
    /\ UNION {ChunkPositions(i) : i \in 0 .. num_threads - 1} = 1 .. Len(data)
    /\ \A t \in TIDs :
         (thr[t].fn = "worker" /\ thr[t].pc = "run") =>
           thr[t].chunk = [j \in 1 .. Cardinality(ChunkPositions(thr[t].index)) |->
                             data[ChunkBounds(thr[t].index).start_idx + j]]
    /\ Len(results) = num_threads
    /\ \A i \in 0 .. num_threads - 1 :
         results[i + 1] = IF WorkerDone(i) THEN SumSquares(ChunkOf(i)) ELSE 0
    /\ pc = "par_done" => ret = <<SumSquares(data)>>

\* C15 happens: a list whose length num_threads does not divide has been summed, and
\* the last worker's slot holds more than one element's square.
C15_Witness ==
  /\ script = "gil" /\ pc = "par_done"
  /\ num_threads = 2 /\ Len(data) = 3
  /\ results = <<data[1] * data[1], (data[2] * data[2]) + (data[3] * data[3])>>
  /\ data[3] > 0
  /\ ret = <<SumSquares(data)>>

----------------------------------------------------------------------------
(* Properties of src/03-threads-vs-processes.py, the order of PART 2       *)

\* Thread t runs the target fn and has not returned from it.
Running(t, fn) == thr[t].fn = fn /\ thr[t].pc \notin {"unstarted", "done"}

\* C16: the demonstrations of PART 2 do not overlap. From the end of the first join
\* loop on, so at the reset counter["value"] = 0 of the synchronized run and ever
\* after, every worker of the unsynchronized run has terminated: none can add to the
\* counter after the reset, and no synchronized worker runs beside an unsynchronized
\* one.
C16_SectionsDoNotOverlap ==
  script = "threads" =>
    /\ pc \notin {"unsync_init", "unsync_start", "unsync_join"} =>
         \A t \in TIDs : ~Running(t, "increment_shared")
    /\ \A t, u \in TIDs :
         ~(Running(t, "increment_shared") /\ Running(u, "increment_shared_safe"))

\* C16 happens: the unsynchronized run has counted and reported, the counter has been
\* reset, and a synchronized worker is inside its guarded section.
C16_Witness ==
  /\ script = "threads"
  /\ pc \in {"sync_start", "sync_join"}
  /\ Printed(65) # <<>> /\ Printed(65)[1] >= 2
  /\ counter = 0
  /\ \E t \in TIDs : Running(t, "increment_shared_safe") /\ thr[t].pc = "write"

----------------------------------------------------------------------------
(* Properties of src/03-threads-vs-processes.py, the synchronized run      *)

\* The main thread is in the synchronized run, between its reset and its report.
InSyncRun == script = "threads" /\ pc \in {"sync_start", "sync_join", "sync_report"}

\* The lock is held by a thread inside its guarded section, or by none: a worker that
\* has completed an increment, or has returned, does not hold it.
LockReleased ==
  InSyncRun =>
    /\ lock = 0 \/ (lock \in TIDs /\ InGuarded(lock))
    /\ (\A t \in TIDs : ~InGuarded(t)) => lock = 0

\* While a worker of the synchronized run has increments left, some thread can step.
NoSyncDeadlock ==
  (InSyncRun /\ \E t \in TIDs : Running(t, "increment_shared_safe")) => ENABLED ThreadStep

\* All W workers of the synchronized run have completed their N increments and
\* returned, and the lock is free.
SyncRunEnded ==
  /\ script = "threads" /\ pc = "sync_report"
  /\ Len(threads) = nworkers
  /\ AllJoined
  /\ counter = nworkers * niter
  /\ lock = 0

\* C17: the synchronized run terminates. Under fair scheduling, once the main thread
\* starts the W workers of increment_shared_safe(N, lock), all of them eventually
\* complete their N increments and return; until then some thread can always step; the
\* lock is released after every single increment and is free once all have finished.
C17_SyncTerminates ==
  /\ [](LockReleased /\ NoSyncDeadlock)
  /\ (script = "threads" /\ pc = "sync_start") ~> SyncRunEnded

\* C17 happens: the largest synchronized run has ended, every worker has returned and
\* the lock is free.
C17_Witness ==
  /\ SyncRunEnded
  /\ nworkers = MaxWorkers /\ niter = MaxIncr
  /\ \A j \in 1 .. Len(threads) : thr[threads[j]].fn = "increment_shared_safe"

\* The increments the first j threads of the list `threads` have completed: the
\* rounds of its loop a running worker has finished, all n of them for a worker that
\* has returned.
RECURSIVE Completed(_)
Completed(j) ==
  IF j = 0
    THEN 0
    ELSE Completed(j - 1)
           + (IF thr[threads[j]].pc = "done" THEN niter ELSE thr[threads[j]].i)

\* No worker is inside the guarded section.
NoneGuarded == \A t \in TIDs : ~InGuarded(t)

\* Thread t stores the counter inside its guarded section in this step.
GuardedStore(t) ==
  /\ thr[t].fn = "increment_shared_safe"
  /\ thr[t].pc = "write"
  /\ thr'[t].pc = "release"

\* C18: the invariant of the synchronized run. Whenever no worker is inside the
\* guarded section, counter["value"] is the number of increments all workers have
\* completed so far; during the run the counter never decreases: the one store of a
\* guarded section raises it by exactly 1 and no other step changes it.
C18_SyncCounterInvariant ==
  [][ /\ (InSyncRun /\ NoneGuarded => counter = Completed(Len(threads)))'
      /\ (InSyncRun /\ InSyncRun') =>
           /\ counter' >= counter
           /\ counter' = IF \E t \in TIDs : GuardedStore(t) THEN counter + 1 ELSE counter
    ]_vars

\* C18 happens: between two guarded sections, with one worker returned and another
\* part of the way, the counter is what they have completed together.
C18_Witness ==
  /\ InSyncRun /\ NoneGuarded
  /\ \E t, u \in TIDs :
       /\ thr[t].fn = "increment_shared_safe" /\ thr[t].pc = "done"
       /\ Running(u, "increment_shared_safe") /\ thr[u].i >= 1 /\ thr[u].i < thr[u].n
       /\ counter = niter + thr[u].i
====
